---- MODULE Spec2Model ----
(***************************************************************************)
(* Model of the /find/page handler of src/main.py (find_page).  One        *)
(* request is followed from the parsed body to its HTTP response.  Every   *)
(* collaborator call (gpt4.*, google_seach.get_top_result,                 *)
(* fetch_page_content) is one step whose outcome is chosen by the          *)
(* environment: a returned value or a raised exception.                    *)
(*                                                                         *)
(* Encoding of Python values:                                              *)
(*   None            -> the string PyNone ("<None>")                       *)
(*   the str 'None'  -> the string StrNone ("None")                        *)
(*   a dict          -> the sequence of its <<key, value>> pairs, in       *)
(*                      insertion order; dict equality ignores the order   *)
(*   a JSON string   -> the sequence of its tokens                         *)
(***************************************************************************)
EXTENDS Integers, Sequences, FiniteSets, TLC

VARIABLES
    request,              \* the parsed body: data (main.py:25)
    pc,                   \* position of the handler
    is_user_searching,    \* main.py:45
    base_url,             \* main.py:58
    search_queries,       \* main.py:60
    sIdx,                 \* position of `for search in search_queries`
    results,              \* main.py:62, set of JSON strings
    unique_results_list,  \* main.py:63/73
    it,                   \* index of the list iterator of main.py:78
    result,               \* loop variable of main.py:78
    relevant_link,        \* main.py:79
    page_content,         \* main.py:81
    response,             \* the (body, status) pair returned
    calls,                \* history: collaborator calls, in order
    selections,           \* history: list handed to / value returned by the selector
    fetches,              \* history: link fetched / content returned
    synth,                \* history: arguments of gen_customer_response
    raised,               \* history: cause of the exception caught at main.py:96
    n0,                   \* history: len(unique_results_list) when the loop starts
    removed,              \* history: elements that left unique_results_list in the loop
    dedup                 \* the deduplication of main.py:62-73 applied on its own

vars == <<request, pc, is_user_searching, base_url, search_queries, sIdx,
          results, unique_results_list, it, result, relevant_link,
          page_content, response, calls, selections, fetches, synth,
          raised, n0, removed, dedup>>

----------------------------------------------------------------------------
(* Bounds *)
MaxQueries == 3

----------------------------------------------------------------------------
(* Values *)
PyNone  == "<None>"
StrNone == "None"

GoodUrl == [scheme |-> "https", netloc |-> "shop.example", path |-> "/product/1"]
BadUrl  == [scheme |-> "", netloc |-> "", path |-> "nonsense"]
NoUrl   == [scheme |-> "", netloc |-> "", path |-> ""]

Urls    == {GoodUrl, BadUrl}
Queries == {"", "what is your return policy?"}

\* the request bodies: a key that is absent reads as None through data.get
Requests ==
    [json_ok : BOOLEAN, has_url : BOOLEAN, url : Urls,
     has_query : BOOLEAN, query : Queries]

SearchStrings == {"example return policy", "shop.example returns"}

\* search results: dicts with a link and a title.  RA and RA2 are the same
\* dict with their keys in a different order.
RA  == << <<"link", "a">>, <<"title", "x">> >>
RA2 == << <<"title", "x">>, <<"link", "a">> >>
RB  == << <<"link", "b">>, <<"title", "y">> >>
RC  == << <<"link", "c">>, <<"title", "z">> >>
ResultPool == {RA, RA2, RB, RC}

Links    == {"a", "b", "c"}
Texts    == {"page text"}
Messages == {"", "a reply"}

NoDict     == << >>
NoResponse == [code |-> 0, link |-> PyNone, message |-> PyNone, error |-> PyNone]
NoSynth    == [called |-> FALSE, link |-> PyNone, content |-> PyNone]
NoDedup    == [stage |-> "idle", input |-> << >>, perm |-> << >>,
               out |-> << >>, outPerm |-> << >>, outAgain |-> << >>]

----------------------------------------------------------------------------
(* Pure helpers *)

\* web_utils.is_valid_url: validators.url accepts a scheme and a host
is_valid_url(u) == u.scheme \in {"http", "https"} /\ u.netloc # ""

\* utils.is_valid_query
is_valid_query(q) == q # ""

\* web_utils.get_base_url: scheme://netloc, the path is dropped
get_base_url(u) == [scheme |-> u.scheme, netloc |-> u.netloc, path |-> ""]

\* json.dumps of a dict: its keys and values, in insertion order
RECURSIVE json_dumps(_)
json_dumps(d) ==
    IF d = << >> THEN << >>
    ELSE <<Head(d)[1], Head(d)[2]>> \o json_dumps(Tail(d))

\* variant: the loaded dict lists its keys in the opposite order
RECURSIVE json_loads_reversed(_)
json_loads_reversed(s) ==
    IF Len(s) < 2 THEN << >>
    ELSE json_loads_reversed(SubSeq(s, 3, Len(s))) \o << <<s[1], s[2]>> >>

\* json.loads of such a string: the pairs, in the order of the text
RECURSIVE json_loads(_)
json_loads(s) ==
    IF Len(s) < 2 THEN << >>
    ELSE << <<s[1], s[2]>> >> \o json_loads(SubSeq(s, 3, Len(s)))

\* dict.__eq__: the same items, whatever the order
DictEq(d1, d2) == {d1[i] : i \in DOMAIN d1} = {d2[i] : i \in DOMAIN d2}

\* the orders in which a set can be iterated
Orderings(S) ==
    {f \in [1..Cardinality(S) -> S] : \A i, j \in DOMAIN f : i # j => f[i] # f[j]}

\* [json.loads(x) for x in results]
LoadAll(order) == [i \in DOMAIN order |-> json_loads(order[i])]

\* main.py:62-72 over a whole sequence of search results: None is skipped,
\* every other result is added to the set as its JSON string
RECURSIVE CollectResults(_)
CollectResults(found) ==
    IF found = << >> THEN {}
    ELSE LET before == CollectResults(SubSeq(found, 1, Len(found) - 1))
             current_result == found[Len(found)]
         IN  IF current_result = NoDict THEN before
             ELSE before \cup {json_dumps(current_result)}

\* the sequences of results the searches of one request can return
ResultSeqs == UNION {[1..n -> ResultPool \cup {NoDict}] : n \in 0..MaxQueries}

\* index of the first element equal to x, 0 when there is none
FirstIndex(lst, x) ==
    IF \E i \in DOMAIN lst : DictEq(lst[i], x)
    THEN CHOOSE i \in DOMAIN lst :
            /\ DictEq(lst[i], x)
            /\ \A j \in 1..(i - 1) : ~DictEq(lst[j], x)
    ELSE 0

\* list.remove(x): drops the first element equal to x
ListRemove(lst, x) ==
    LET k == FirstIndex(lst, x)
    IN  [i \in 1..(Len(lst) - 1) |-> IF i < k THEN lst[i] ELSE lst[i + 1]]

\* truth value of what gpt4.is_user_searching returned
Truthy(v) == v = "True"

\* the 'link' entry of a search result
LinkOf(d) == d[CHOOSE i \in DOMAIN d : d[i][1] = "link"][2]

\* the sequences gpt4.get_search_queries can return
QuerySeqs == UNION {[1..n -> SearchStrings] : n \in 0..MaxQueries}

----------------------------------------------------------------------------
(* Responses *)

ErrorText(code) ==
    CASE code = 401 -> "Missing url parameter."
      [] code = 402 -> "Missing query parameter."
      [] code = 421 -> "Invalid URL."
      [] code = 422 -> "Invalid query."
      [] code = 423 -> "No relevant links found."
      [] code = 424 -> "No relevant links found."
      [] OTHER      -> "An error occurred."

\* jsonify({'error': ...}), code
ErrorResponse(code) ==
    [code |-> code, link |-> PyNone, message |-> PyNone, error |-> ErrorText(code)]

\* variant: the handler hides the cause behind a fixed text
ExceptResponse_generic(cause) ==
    [code |-> 500, link |-> PyNone, message |-> PyNone, error |-> "An error occurred."]

\* the handler of main.py:96-98: jsonify({'error': str(e)}), 500
ExceptResponse(cause) ==
    [code |-> 500, link |-> PyNone, message |-> PyNone, error |-> cause]

\* variant: the unfocused reply is also returned as the link
UnfocusedResponse_linked(msg) ==
    [code |-> 200, link |-> msg, message |-> msg, error |-> PyNone]

\* main.py:52
UnfocusedResponse(msg) ==
    [code |-> 200, link |-> PyNone, message |-> msg, error |-> PyNone]

\* main.py:94
GroundedResponse(link, msg) ==
    [code |-> 200, link |-> link, message |-> msg, error |-> PyNone]

\* variant: the query is checked before the url is validated
InputCheck_reordered(req) ==
    IF ~req.has_url THEN 401
    ELSE IF ~req.has_query THEN 402
    ELSE IF ~is_valid_query(req.query) THEN 422
    ELSE IF ~is_valid_url(req.url) THEN 421
    ELSE 0

\* main.py:30-43: the first input check that fails, 0 when all pass
InputCheck(req) ==
    IF ~req.has_url THEN 401
    ELSE IF ~req.has_query THEN 402
    ELSE IF ~is_valid_url(req.url) THEN 421
    ELSE IF ~is_valid_query(req.query) THEN 422
    ELSE 0

\* main.py:47-55: where the handler goes with the classifier's answer
ClassifyBranch(v) ==
    IF ~Truthy(v) THEN "unfocused"
    ELSE IF v = PyNone THEN "error"
    ELSE "expand"

\* variant: the emptiness test is strict
NoCandidates_strict(lst) == Len(lst) < 0

\* main.py:75
NoCandidates(lst) == Len(lst) <= 0

\* variant: only the None object counts as no selection
NoSelection_noneOnly(rl) == rl = PyNone

\* main.py:89
NoSelection(rl) == rl = StrNone \/ rl = PyNone

\* variant: a failed fetch retries the same position and removes nothing
LoopAfterFailure_retry(lst, i, res) ==
    [lst |-> lst, it |-> i]

\* variant: the iterator does not skip the element that slid into the
\* removed position
LoopAfterFailure_noskip(lst, i, res) ==
    [lst |-> ListRemove(lst, res), it |-> i]

\* main.py:87 and the advance of the list iterator of main.py:78
LoopAfterFailure(lst, i, res) ==
    [lst |-> ListRemove(lst, res), it |-> i + 1]

\* variant: the link of the iterated element is used, not the selected one
SynthArgs_iterated(rl, content, res) ==
    [called |-> TRUE, link |-> LinkOf(res), content |-> content]

\* variant: the selector is handed the list as it was when the loop started
SelectorArg_original(lst, original) == original

\* main.py:79: the list handed to get_relevant_result is the list being
\* iterated and shrunk, not a copy made when the loop started
SelectorArg(lst, original) == lst

\* the elements of old that are no longer in new, with the link whose fetch
\* had just failed when they were removed (main.py:81-87)
Dropped(old, new, link) ==
    LET gone == SelectSeq(old, LAMBDA e : \A k \in DOMAIN new : new[k] # e)
    IN  [i \in DOMAIN gone |-> [elem |-> gone[i], fetched |-> link]]

\* main.py:92: the link and content handed to gen_customer_response
SynthArgs(rl, content, res) ==
    [called |-> TRUE, link |-> rl, content |-> content]

----------------------------------------------------------------------------
(* Initial state: a request has been received, nothing has run *)
Init ==
    /\ request \in Requests
    /\ pc = "start"
    /\ is_user_searching = PyNone
    /\ base_url = NoUrl
    /\ search_queries = << >>
    /\ sIdx = 1
    /\ results = {}
    /\ unique_results_list = << >>
    /\ it = 0
    /\ result = NoDict
    /\ relevant_link = PyNone
    /\ page_content = PyNone
    /\ response = NoResponse
    /\ calls = << >>
    /\ selections = << >>
    /\ fetches = << >>
    /\ synth = NoSynth
    /\ raised = PyNone
    /\ n0 = 0
    /\ removed = << >>
    /\ dedup = NoDedup

----------------------------------------------------------------------------
(* Building blocks of the actions *)

Raised == "<raise>"

\* a collaborator call, with what it returned (Raised when it raised)
Call(fn, arg, ret) ==
    calls' = Append(calls, [fn |-> fn, arg |-> arg, ret |-> ret])

\* return ..., code
Return(resp) ==
    /\ pc' = "done"
    /\ response' = resp
    /\ raised' = raised

\* an exception reaches `except Exception as e` (main.py:96-98)
Raise(cause) ==
    /\ pc' = "done"
    /\ response' = ExceptResponse(cause)
    /\ raised' = cause

\* the collaborator fn raises: the exception's text names the failed call
Fail(fn, arg) ==
    /\ Call(fn, arg, Raised)
    /\ Raise(fn)

Goto(label) ==
    /\ pc' = label
    /\ response' = response
    /\ raised' = raised

\* main.py:89-92, reached when the loop of main.py:78 is left
AfterLoop(rl) ==
    IF NoSelection(rl) THEN Return(ErrorResponse(424)) ELSE Goto("synth")

\* main.py:75-78, reached when the loop of main.py:64 is left with list lst
AfterSearch(lst) ==
    IF NoCandidates(lst)
    THEN /\ Return(ErrorResponse(423))
         /\ UNCHANGED <<it, result, n0>>
    ELSE IF lst = << >>
    THEN \* the body never runs and main.py:89 reads an unbound relevant_link
         /\ Raise("UnboundLocalError")
         /\ UNCHANGED <<it, result, n0>>
    ELSE /\ Goto("select")
         /\ it' = 1
         /\ result' = lst[1]
         /\ n0' = Len(lst)

----------------------------------------------------------------------------
(* Actions *)

\* main.py:25-43
ParseRequest ==
    /\ pc = "start"
    /\ IF ~request.json_ok
       THEN Raise("bad request body")
       ELSE IF InputCheck(request) # 0
       THEN Return(ErrorResponse(InputCheck(request)))
       ELSE Goto("classify")
    /\ UNCHANGED <<dedup, removed, request, is_user_searching, base_url, search_queries, sIdx,
                   results, unique_results_list, it, result, relevant_link,
                   page_content, calls, selections, fetches, synth, n0>>

\* main.py:45-55
Classify ==
    /\ pc = "classify"
    /\ \/ /\ Fail("is_user_searching", request.query)
          /\ UNCHANGED is_user_searching
       \/ \E out \in {"True", "False", PyNone} :
            /\ Call("is_user_searching", request.query, out)
            /\ is_user_searching' = out
            /\ IF ClassifyBranch(out) = "error"
               THEN Return(ErrorResponse(500))
               ELSE Goto(ClassifyBranch(out))
    /\ UNCHANGED <<dedup, removed, request, base_url, search_queries, sIdx, results,
                   unique_results_list, it, result, relevant_link,
                   page_content, selections, fetches, synth, n0>>

\* main.py:50-52
GenUnfocused ==
    /\ pc = "unfocused"
    /\ \/ Fail("gen_unfocused_response", request.query)
       \/ \E msg \in Messages :
            /\ Call("gen_unfocused_response", request.query, msg)
            /\ Return(UnfocusedResponse(msg))
    /\ UNCHANGED <<dedup, removed, request, is_user_searching, base_url, search_queries, sIdx,
                   results, unique_results_list, it, result, relevant_link,
                   page_content, selections, fetches, synth, n0>>

\* main.py:58-64, and main.py:75-78 when there is no query to search
Expand ==
    /\ pc = "expand"
    /\ base_url' = get_base_url(request.url)
    /\ \/ /\ Fail("get_search_queries", request.query)
          /\ UNCHANGED <<search_queries, it, result, n0>>
       \/ \E qs \in QuerySeqs :
            /\ Call("get_search_queries", request.query, "a list")
            /\ search_queries' = qs
            /\ IF qs = << >>
               THEN AfterSearch(<< >>)
               ELSE Goto("search") /\ UNCHANGED <<it, result, n0>>
    /\ results' = {}
    /\ unique_results_list' = << >>
    /\ sIdx' = 1
    /\ UNCHANGED <<dedup, removed, request, is_user_searching, relevant_link, page_content,
                   selections, fetches, synth>>

\* one iteration of main.py:64-73, and main.py:75-78 after the last one
SearchStep ==
    /\ pc = "search"
    /\ \/ /\ Fail("get_top_result", search_queries[sIdx])
          /\ UNCHANGED <<results, unique_results_list, sIdx, it, result, n0>>
       \/ \E current_result \in ResultPool \cup {NoDict} :
          \E order \in Orderings(IF current_result = NoDict THEN results
                                 ELSE results \cup {json_dumps(current_result)}) :
            /\ Call("get_top_result", search_queries[sIdx],
                    IF current_result = NoDict THEN PyNone ELSE "a result")
            /\ IF current_result = NoDict
               THEN UNCHANGED <<results, unique_results_list>>
               ELSE /\ results' = results \cup {json_dumps(current_result)}
                    /\ unique_results_list' = LoadAll(order)
            /\ sIdx' = sIdx + 1
            /\ IF sIdx < Len(search_queries)
               THEN Goto("search") /\ UNCHANGED <<it, result, n0>>
               ELSE AfterSearch(unique_results_list')
    /\ UNCHANGED <<dedup, removed, request, is_user_searching, base_url, search_queries,
                   relevant_link, page_content, selections, fetches, synth>>

\* main.py:79
Select ==
    /\ pc = "select"
    /\ \/ /\ Fail("get_relevant_result", request.query)
          /\ UNCHANGED <<relevant_link, selections>>
       \/ \E out \in Links \cup {PyNone, StrNone} :
            /\ Call("get_relevant_result", request.query, out)
            /\ relevant_link' = out
            /\ selections' = Append(selections,
                                [given |-> SelectorArg(unique_results_list,
                                               IF selections = << >>
                                               THEN unique_results_list
                                               ELSE selections[1].given),
                                 chosen |-> out])
            /\ Goto("fetch")
    /\ UNCHANGED <<dedup, removed, request, is_user_searching, base_url, search_queries, sIdx,
                   results, unique_results_list, it, result, page_content,
                   fetches, synth, n0>>

\* what fetch_page_content can return for a link: text, or None on failure
FetchOutcomes(link) == IF link \in Links THEN Texts \cup {PyNone} ELSE {PyNone}

\* main.py:81-87, the next step of the iterator of main.py:78, main.py:89-90
Fetch ==
    /\ pc = "fetch"
    /\ \E content \in FetchOutcomes(relevant_link) :
        /\ Call("fetch_page_content", relevant_link, content)
        /\ page_content' = content
        /\ fetches' = Append(fetches, [link |-> relevant_link, content |-> content])
        /\ IF content # PyNone
           THEN /\ AfterLoop(relevant_link)
                /\ UNCHANGED <<unique_results_list, it, result, removed>>
           ELSE IF FirstIndex(unique_results_list, result) = 0
           THEN /\ Raise("ValueError")
                /\ UNCHANGED <<unique_results_list, it, result, removed>>
           ELSE LET nxt == LoopAfterFailure(unique_results_list, it, result)
                IN  /\ unique_results_list' = nxt.lst
                    /\ it' = nxt.it
                    /\ removed' = removed \o Dropped(unique_results_list, nxt.lst,
                                                      relevant_link)
                    /\ IF nxt.it <= Len(nxt.lst)
                       THEN Goto("select") /\ result' = nxt.lst[nxt.it]
                       ELSE AfterLoop(relevant_link) /\ UNCHANGED result
    /\ UNCHANGED <<dedup, request, is_user_searching, base_url, search_queries,
                   sIdx, results, relevant_link, selections, synth, n0>>

\* main.py:92-94
Synthesize ==
    /\ pc = "synth"
    /\ synth' = SynthArgs(relevant_link, page_content, result)
    /\ \/ Fail("gen_customer_response", synth'.link)
       \/ \E msg \in Messages :
            /\ Call("gen_customer_response", synth'.link, msg)
            /\ Return(GroundedResponse(synth'.link, msg))
    /\ UNCHANGED <<dedup, removed, request, is_user_searching, base_url, search_queries, sIdx,
                   results, unique_results_list, it, result, relevant_link,
                   page_content, selections, fetches, n0>>

Next ==
    \/ ParseRequest
    \/ Classify
    \/ GenUnfocused
    \/ Expand
    \/ SearchStep
    \/ Select
    \/ Fetch
    \/ Synthesize

Spec == Init /\ [][Next]_vars

----------------------------------------------------------------------------
(* The deduplication of main.py:62-73 on its own: it is applied to a        *)
(* sequence of search results, to a permutation of that sequence, and to    *)
(* its own output.                                                          *)

handlerVars == <<request, pc, is_user_searching, base_url, search_queries,
                 sIdx, results, unique_results_list, it, result,
                 relevant_link, page_content, response, calls, selections,
                 fetches, synth, raised, n0, removed>>

DedupInit ==
    /\ request = [json_ok |-> TRUE, has_url |-> TRUE, url |-> GoodUrl,
                  has_query |-> TRUE, query |-> "what is your return policy?"]
    /\ pc = "search"
    /\ is_user_searching = "True"
    /\ base_url = get_base_url(GoodUrl)
    /\ search_queries = << >>
    /\ sIdx = 1
    /\ results = {}
    /\ unique_results_list = << >>
    /\ it = 0
    /\ result = NoDict
    /\ relevant_link = PyNone
    /\ page_content = PyNone
    /\ response = NoResponse
    /\ calls = << >>
    /\ selections = << >>
    /\ fetches = << >>
    /\ synth = NoSynth
    /\ raised = PyNone
    /\ n0 = 0
    /\ removed = << >>
    /\ \E found \in ResultSeqs :
            dedup = [NoDedup EXCEPT !.stage = "input", !.input = found]

\* main.py:62-73 on the results as they came
DedupRun ==
    /\ dedup.stage = "input"
    /\ \E order \in Orderings(CollectResults(dedup.input)) :
            dedup' = [dedup EXCEPT !.stage = "deduped", !.out = LoadAll(order)]
    /\ UNCHANGED handlerVars

\* main.py:62-73 on the same results in another order
DedupShuffled ==
    /\ dedup.stage = "deduped"
    /\ \E p \in Orderings(DOMAIN dedup.input) :
        LET shuffled == [i \in DOMAIN dedup.input |-> dedup.input[p[i]]]
        IN  \E order \in Orderings(CollectResults(shuffled)) :
                dedup' = [dedup EXCEPT !.stage = "shuffled",
                                       !.perm = shuffled,
                                       !.outPerm = LoadAll(order)]
    /\ UNCHANGED handlerVars

\* main.py:62-73 on its own output
DedupAgain ==
    /\ dedup.stage = "deduped"
    /\ \E order \in Orderings(CollectResults(dedup.out)) :
            dedup' = [dedup EXCEPT !.stage = "again", !.outAgain = LoadAll(order)]
    /\ UNCHANGED handlerVars

DedupNext ==
    \/ DedupRun
    \/ DedupShuffled
    \/ DedupAgain

DedupSpec == DedupInit /\ [][DedupNext]_vars

----------------------------------------------------------------------------
(* Vocabulary of the properties *)

Done == pc = "done"

Called(fn) == \E i \in DOMAIN calls : calls[i].fn = fn

CallsOf(fn) == {i \in DOMAIN calls : calls[i].fn = fn}

\* the loop of main.py:78 has been entered
LoopEntered == n0 > 0

AllFetchesFailed == \A i \in DOMAIN fetches : fetches[i].content = PyNone

GenerationFns == {"is_user_searching", "gen_unfocused_response",
                  "get_search_queries", "get_relevant_result",
                  "gen_customer_response"}

PipelineFns == {"get_search_queries", "get_top_result",
                "get_relevant_result", "fetch_page_content",
                "gen_customer_response"}

\* the classifier returned v (and did not raise)
Classified(v) ==
    /\ \E i \in DOMAIN calls : calls[i].fn = "is_user_searching" /\ calls[i].ret = v
    /\ is_user_searching = v

\* every selection so far was a link of the list the selector was handed
SelectorFaithful ==
    \A i \in DOMAIN selections :
        \E k \in DOMAIN selections[i].given :
            LinkOf(selections[i].given[k]) = selections[i].chosen

Range(seq) == {seq[i] : i \in DOMAIN seq}

FailedFetches == {i \in DOMAIN fetches : fetches[i].content = PyNone}

NoSelectionValues == {PyNone, StrNone}

\* the search stage ran to its end and produced no result at all
SearchStageAllAbsent ==
    /\ Classified("True")
    /\ \E i \in DOMAIN calls :
        calls[i].fn = "get_search_queries" /\ calls[i].ret # Raised
    /\ Cardinality(CallsOf("get_top_result")) = Len(search_queries)
    /\ \A i \in CallsOf("get_top_result") : calls[i].ret = PyNone

\* the request was refused with this code and text before any collaborator call
Rejected(code, text) ==
    /\ Done
    /\ response = [code |-> code, link |-> PyNone, message |-> PyNone, error |-> text]
    /\ calls = << >>

----------------------------------------------------------------------------
\* C1: for a Searching query with a non-empty candidate list, when every
\* fetch of the verification loop returned None and nothing raised, the
\* response is 424 'No relevant links found.' (not 423, not a 200 with a link).
C1_AllFetchesFailGive424 ==
    (/\ Done
     /\ Classified("True")
     /\ LoopEntered
     /\ fetches # << >>
     /\ AllFetchesFailed
     /\ raised = PyNone)
    => response = ErrorResponse(424)

\* C2: when is_user_searching returns None the handler answers 500 and never
\* calls gen_unfocused_response.
C2_UnknownIntentIs500 ==
    Classified(PyNone) =>
        /\ Done
        /\ response.code = 500
        /\ ~Called("gen_unfocused_response")

\* C3 as stated: every NotSearching request ends in 200 with link = null and
\* a non-empty message, with no expansion, search, selection or fetch call.
C3_NotSearchingAlways200NonEmpty ==
    (Done /\ Classified("False")) =>
        /\ response.code = 200
        /\ response.link = PyNone
        /\ response.message \notin {PyNone, ""}
        /\ \A i \in DOMAIN calls : calls[i].fn \notin PipelineFns

\* C3 amended: a NotSearching request makes exactly one further call,
\* gen_unfocused_response; if it returns text the response is 200 with
\* link = null and that text as message (empty or not), if it raises the
\* response is 500; no expansion, search, selection or fetch call is made.
C3_NotSearchingUnfocusedOnly ==
    Classified("False") =>
        /\ pc \in {"unfocused", "done"}
        /\ \A i \in DOMAIN calls : calls[i].fn \notin PipelineFns
        /\ Done =>
            /\ Len(calls) = 2
            /\ calls[2].fn = "gen_unfocused_response"
            /\ IF calls[2].ret = Raised
               THEN response.code = 500
               ELSE /\ response.code = 200
                    /\ response.link = PyNone
                    /\ response.message = calls[2].ret
                    /\ response.error = PyNone

C3_Witness ==
    /\ Done
    /\ Classified("False")
    /\ response.code = 200
    /\ response.message = "a reply"

\* C4: for a Searching query, when the expansion returned and every search
\* of every expanded query returned None (or there was no expanded query), the
\* response is 423 and neither get_relevant_result nor fetch_page_content is
\* ever called.
C4_NoCandidatesIs423 ==
    SearchStageAllAbsent =>
        /\ Done
        /\ response = ErrorResponse(423)
        /\ ~LoopEntered
        /\ ~Called("get_relevant_result")
        /\ ~Called("fetch_page_content")

C4_Witness ==
    /\ SearchStageAllAbsent
    /\ Len(search_queries) >= 2
    /\ response.code = 423

\* C5: a successful fetch ends the loop at once; gen_customer_response is then
\* called with exactly the fetched link and the fetched content, the response
\* is never 423 or 424, and a 200 response carries exactly the fetched link.
C5_VerifiedCarriesFetched ==
    \A i \in DOMAIN fetches :
        fetches[i].content # PyNone =>
            /\ i = Len(fetches)
            /\ pc \in {"synth", "done"}
            /\ response.code \notin {423, 424}
            /\ Done => synth.called
            /\ synth.called =>
                /\ synth.link = fetches[i].link
                /\ synth.content = fetches[i].content
            /\ response.code = 200 => response.link = fetches[i].link
            /\ response.code = 500 => raised = "gen_customer_response"

C5_Witness ==
    /\ Done
    /\ response.code = 200
    /\ Len(fetches) = 2
    /\ fetches[1].content = PyNone
    /\ fetches[2].content # PyNone
    /\ response.link = fetches[2].link
    /\ response.link # LinkOf(result)

\* C6: as long as the selector chooses among the links of the list it is
\* handed, no link is fetched twice within one request.
C6_NoCandidateFetchedTwice ==
    SelectorFaithful =>
        \A i, j \in DOMAIN fetches : i # j => fetches[i].link # fetches[j].link

\* C7: the loop makes at most n selections and n fetch attempts for a list of
\* n candidates, and a further iteration is started only while fewer than n
\* fetches were made.
C7_AtMostNFetches ==
    /\ Len(fetches) <= n0
    /\ Len(selections) <= n0
    /\ pc = "select" => Len(fetches) < n0
    /\ pc \in {"select", "fetch"} => it <= Len(unique_results_list)

C7_Witness ==
    /\ Done
    /\ n0 = 3
    /\ Len(fetches) = 2
    /\ AllFetchesFailed

\* C8: the input checks decide the response in the order missing url (401),
\* missing query (402), invalid url (421), invalid query (422), and in each
\* of these cases no collaborator is called.
C8_InputChecksInOrder ==
    (request.json_ok /\ pc # "start") =>
        /\ ~request.has_url => Rejected(401, "Missing url parameter.")
        /\ (request.has_url /\ ~request.has_query) =>
                Rejected(402, "Missing query parameter.")
        /\ (request.has_url /\ request.has_query /\ request.url = BadUrl) =>
                Rejected(421, "Invalid URL.")
        /\ (request.has_url /\ request.has_query /\ request.url = GoodUrl
                /\ request.query = "") =>
                Rejected(422, "Invalid query.")

C8_Witness ==
    /\ Done
    /\ request.has_url /\ request.has_query
    /\ request.url = BadUrl /\ request.query = ""
    /\ response.code = 421

\* C9: once the expansion has returned, every expanded query is issued to the
\* search provider before the request ends, whatever the provider did for
\* the other queries.
C9_EverySearchIssued ==
    (/\ Done
     /\ \E i \in DOMAIN calls :
            calls[i].fn = "get_search_queries" /\ calls[i].ret # Raised)
    => \A k \in DOMAIN search_queries :
            \E i \in CallsOf("get_top_result") : calls[i].arg = search_queries[k]

\* C10: when a generation-service call raises, it is the last collaborator
\* call of the request, the request is over, and the response is 500 with the
\* failure as its error text.
C10_GenerationFailureIs500 ==
    \A i \in DOMAIN calls :
        (calls[i].fn \in GenerationFns /\ calls[i].ret = Raised) =>
            /\ i = Len(calls)
            /\ Done
            /\ response.code = 500
            /\ response.error = calls[i].fn
            /\ response.link = PyNone /\ response.message = PyNone

C10_Witness ==
    /\ Done
    /\ Len(calls) > 0
    /\ calls[Len(calls)].fn = "get_relevant_result"
    /\ calls[Len(calls)].ret = Raised
    /\ Len(fetches) = 1
    /\ response.code = 500

\* C11: with a selector that chooses among the links of the list it is
\* handed, every element that leaves the working list is the candidate whose
\* fetch has just failed.
C11_RemovedIsTheFetched ==
    SelectorFaithful =>
        \A k \in DOMAIN removed : LinkOf(removed[k].elem) = removed[k].fetched

\* C12: when the selector returns None or 'None', that selection is the last
\* one, no fetch is made for it, and a request that ends without an
\* exception ends in 424.
C12_NoSelectionEndsLoop ==
    \A i \in DOMAIN selections :
        selections[i].chosen \in NoSelectionValues =>
            /\ i = Len(selections)
            /\ Len(fetches) < i
            /\ (Done /\ raised = PyNone) => response.code = 424

\* C13: gen_customer_response is called only after a fetch that succeeded,
\* with the link of that fetch and its (non-None) content.
C13_SynthesisOnlyAfterVerified ==
    synth.called =>
        /\ fetches # << >>
        /\ fetches[Len(fetches)].content # PyNone
        /\ synth.content = fetches[Len(fetches)].content
        /\ synth.link = fetches[Len(fetches)].link

\* C14: the list handed to the i-th get_relevant_result call is the
\* deduplicated list without the i-1 elements removed in the earlier
\* iterations; from the second call on it is never the original list.
C14_SelectorGetsWorkingList ==
    \A i \in DOMAIN selections :
        LET original == selections[1].given
            given    == selections[i].given
            gone     == {removed[k].elem : k \in 1..(i - 1)}
        IN  /\ Len(removed) >= i - 1
            /\ Range(original) = {json_loads(x) : x \in results}
            /\ Len(original) = n0
            /\ Range(given) = Range(original) \ gone
            /\ Len(given) = Cardinality(Range(original) \ gone)
            /\ i > 1 => given # original

C14_Witness ==
    /\ Len(selections) = 2
    /\ Len(removed) = 1
    /\ n0 = 3
    /\ Len(selections[2].given) = 2
    /\ pc = "fetch"

\* C16: a list of n >= 1 candidates gets at most ceil(n/2) select-and-fetch
\* iterations; the k-th failed iteration removes the element being iterated,
\* element 2k-1 of the original list (list.remove takes the first element
\* equal to it as a dict), and the list is shorter by exactly one element per
\* failed iteration.
C16_HalfTheCandidatesAreTried ==
    LoopEntered =>
        /\ 2 * Len(selections) <= n0 + 1
        /\ 2 * Len(fetches) <= n0 + 1
        /\ Len(unique_results_list) = n0 - Cardinality(FailedFetches)
        /\ Len(removed) = Cardinality(FailedFetches)
        /\ \A k \in DOMAIN removed :
            DictEq(removed[k].elem, selections[1].given[2 * k - 1])

C16_Witness ==
    /\ n0 = 3
    /\ Len(removed) = 2
    /\ Len(unique_results_list) = 1
    /\ pc = "synth"

\* C17: a finished request has status 424 exactly when the loop was entered,
\* no exception was raised and the last value returned by
\* get_relevant_result is None or 'None'; the content of the last fetch plays
\* no part.
C17_424IffLastSelectionIsNone ==
    Done =>
        (response.code = 424 <=>
            /\ LoopEntered
            /\ raised = PyNone
            /\ selections # << >>
            /\ selections[Len(selections)].chosen \in NoSelectionValues)

C17_Witness ==
    /\ Done
    /\ response = ErrorResponse(424)
    /\ Len(selections) = 2
    /\ selections[1].chosen \in Links
    /\ selections[2].chosen = StrNone
    /\ page_content = PyNone

\* C15: deduplicating a permutation of the search results, or the output of
\* a deduplication, gives the same candidates as deduplicating the results
\* themselves, and no two candidates of the output have the same JSON string.
C15_DedupIdempotentOrderIndependent ==
    /\ dedup.stage \in {"deduped", "shuffled", "again"} =>
        /\ \A i, j \in DOMAIN dedup.out :
            i # j => json_dumps(dedup.out[i]) # json_dumps(dedup.out[j])
        /\ \A i \in DOMAIN dedup.input :
            dedup.input[i] # NoDict => dedup.input[i] \in Range(dedup.out)
        /\ Range(dedup.out) \subseteq Range(dedup.input)
    /\ dedup.stage = "shuffled" =>
        /\ Range(dedup.outPerm) = Range(dedup.out)
        /\ Len(dedup.outPerm) = Len(dedup.out)
    /\ dedup.stage = "again" =>
        /\ Range(dedup.outAgain) = Range(dedup.out)
        /\ Len(dedup.outAgain) = Len(dedup.out)

C15_Witness ==
    /\ dedup.stage = "shuffled"
    /\ Len(dedup.input) = 3
    /\ dedup.input[1] = dedup.input[3]
    /\ dedup.input[1] # NoDict
    /\ dedup.perm # dedup.input
    /\ Len(dedup.out) = 2
    /\ dedup.outPerm # dedup.out

====
